---- MODULE Spec2Model ----
(***************************************************************************)
(* Model of the segmentation training / evaluation loops of                *)
(*   src/training/segmentation_trainer.py  (class SegmentationTrainer and  *)
(*                                          its module-level helpers)      *)
(*   src/2_class/fcn_2class.py             (the 2-class train/test/        *)
(*                                          print_log functions)           *)
(*                                                                         *)
(* Tensors are flattened: a batch of label maps is a function from the     *)
(* pixel positions 1..n to class labels.  Floating-point values are exact  *)
(* rationals <<numerator, denominator>> in lowest terms.  Images are       *)
(* scaled down from 1280 x 720 pixels to PixPerImage pixels.               *)
(***************************************************************************)
EXTENDS Integers, Sequences, FiniteSets, TLC

\* ------------------------------------------------------------- bounds
AccPixels == 2          \* pixels of a batch handed to get_per_class_accuracy on its own
LossPixels == 3         \* pixels of a batch handed to get_per_class_loss on its own
MaxCalls == 2           \* get_per_class_accuracy calls accumulated into one matrix
PixPerImage == 1        \* pixels of one image (1280 x 720 in the program)
MaxBatches == 2         \* longest data loader; also the batches one process handles in all
MaxRuns == 2            \* train / test invocations of one process

\* the class counts the program is run with (num_classes is 2 or 3)
ClassCounts == {2, 3}
\* element-wise cross-entropy values drawn for a pixel
LossVals == {1, 2}
\* loader batch sizes
BatchSizes == {1, 2}
\* log_spacing / save_spacing / iters_per_log values
Spacings == {1, 2}

VARIABLES
    \* ---- helper-level state (get_per_class_accuracy / get_per_class_loss on their own)
    target,         \* target label map handed to get_per_class_loss
    loss,           \* element-wise loss handed to get_per_class_loss
    loss_vec,       \* the vector get_per_class_loss fills
    acc_dict,       \* the confusion matrix get_per_class_accuracy mutates in place
                    \* (also the local acc_dict of the 2-class train / test)
    pairs,          \* pairs[p][t]: pixels handed over so far with prediction p, target t
    calls,          \* number of helper calls so far
    pixels_seen,    \* number of pixels handed to get_per_class_accuracy so far
    \* ---- the run
    variant,        \* "trainer": SegmentationTrainer, "2class": fcn_2class.py
    cfg,            \* constructor / call arguments fixed for the process; both loaders
                    \* hold n_batches batches
    phase,          \* "idle" | "train" | "test" | "failed" (an exception left the call)
    call,           \* the invocation running or last run: "none" | "train" | "test"
    err,            \* the exception that left the call, or "none"
    runs,           \* invocations started so far
    work,           \* batches the invocations started so far process in all
    batch_idx,      \* index the loader enumeration yields next
    start_index,    \* train's start_index argument
    flags,          \* test's use_prior / use_crf / visualize arguments
    class_correct,  \* per-class intersection counts
    class_jacard_or,\* per-class union counts
    correct,        \* 2-class train: sum_num_correct, 2-class test: correct
    sum_loss,       \* train: sum_loss, test: test_loss
    batches_done,   \* test: batches_done
    weights,        \* version of the model parameters: the number of optimizer steps applied
    saved,          \* weights version of the last checkpoint written, -1 when none
    train_stats,    \* model.train_stats
    test_stats,     \* model.test_stats
    reports,        \* what print_log has printed, in order
    ops,            \* operations of the loop iteration just executed, in order
    \* ---- history of the current invocation
    processed,      \* loader indices of the batches processed, in order
    inv_pairs,      \* inv_pairs[p][t]: pixels processed with prediction p, target t
    conf_start,     \* the invocation's confusion matrix as it was when the invocation started
    \* ---- the prior-correction stage of one test batch (use_prior, no CRF)
    distribution,   \* what data_statistics.get_distribution() returned, per class
    prior,          \* test's local prior: the distribution, then the penalty vector
    raw_output,     \* the model's output for the batch, per sample and class (one pixel)
    output,         \* test's local output
    history,        \* per sample: the transformations applied to it so far, in order
    stage,          \* position in lines 111-129, "done" when the loop is left
    sample_i        \* the loop variable i of line 124

helper_vars == <<target, loss, loss_vec, acc_dict, pairs, calls, pixels_seen>>

run_vars == <<variant, cfg, phase, call, err, runs, work, batch_idx, start_index, flags, class_correct,
              class_jacard_or, correct, sum_loss, batches_done, weights, saved, train_stats,
              test_stats, reports, ops, processed, inv_pairs, conf_start>>

prior_vars == <<distribution, prior, raw_output, output, history, stage, sample_i>>

vars == <<helper_vars, run_vars, prior_vars>>

\* ------------------------------------------------------------- arithmetic
RECURSIVE GCD(_, _)
GCD(a, b) == IF b = 0 THEN a ELSE GCD(b, a % b)

\* a float: the exact rational n/d in lowest terms
Rat(n, d) == LET g == GCD(n, d) IN <<n \div g, d \div g>>

Zero == Rat(0, 1)

NaN == <<0, 0>>

\* tensor / python number: a zero divisor yields inf or nan, never a finite value
TrueDiv(n, d) == IF d = 0 THEN NaN ELSE Rat(n, d)

RatAdd(x, y) == IF x = NaN \/ y = NaN THEN NaN
                ELSE Rat(x[1] * y[2] + y[1] * x[2], x[2] * y[2])

\* sum of f over the index set S
RECURSIVE SetSum(_, _)
SetSum(f, S) == IF S = {} THEN 0
                ELSE LET k == CHOOSE x \in S : TRUE IN f[k] + SetSum(f, S \ {k})

RECURSIVE SeqSum(_)
SeqSum(s) == IF s = <<>> THEN 0 ELSE Head(s) + SeqSum(Tail(s))

Classes(n) == 0 .. (n - 1)

Range(f) == {f[k] : k \in DOMAIN f}

\* len() of a 0-indexed list or tensor
len(v) == Cardinality(DOMAIN v)

ZeroMatrix(n) == [r \in Classes(n) |-> [c \in Classes(n) |-> 0]]

LabelMaps(npix, n) == [1 .. npix -> Classes(n)]

\* ------------------------------------------------------------- helpers
\* prediction_error(predicted_label, target_label): the number of positions
\* where (prediction - predicted_label) and (target - target_label) are both 0
prediction_error(p, t, predicted_label, target_label) ==
    Cardinality({k \in DOMAIN p :
        ~((p[k] - predicted_label # 0) \/ (t[k] - target_label # 0))})

get_per_class_accuracy_offdiag(p, t, acc) ==
    [j \in DOMAIN acc |-> [i \in DOMAIN acc[j] |->
        IF i = j THEN acc[j][i] ELSE acc[j][i] + prediction_error(p, t, i, j)]]

\* for i, for j: acc_dict[j][i] += prediction_error(i, j)
get_per_class_accuracy(p, t, acc) ==
    [j \in DOMAIN acc |-> [i \in DOMAIN acc[j] |->
        acc[j][i] + prediction_error(p, t, i, j)]]

\* torch.masked_select(loss, target.eq(i)): the selected elements, in order
RECURSIVE masked_select(_, _, _, _)
masked_select(l, t, i, k) ==
    IF k > Len(l) THEN <<>>
    ELSE (IF t[k] = i THEN <<l[k]>> ELSE <<>>) \o masked_select(l, t, i, k + 1)

total_num(t, i) == Cardinality({k \in DOMAIN t : t[k] = i})

get_per_class_loss_unguarded(l, t, n) ==
    [i \in Classes(n) |-> TrueDiv(SeqSum(masked_select(l, t, i, 1)), total_num(t, i))]

\* loss_vec[i] = sum(selected) / total_num if total_num > 0 else sum(selected)
get_per_class_loss(l, t, n) ==
    [i \in Classes(n) |->
        IF total_num(t, i) > 0
        THEN TrueDiv(SeqSum(masked_select(l, t, i, 1)), total_num(t, i))
        ELSE Rat(SeqSum(masked_select(l, t, i, 1)), 1)]

\* ------------------------------------------------------------- values at rest
EmptyStats(n) == [loss |-> <<>>, accuracy |-> <<>>, jaccard_accuracy |-> <<>>,
                  per_class_loss |-> <<>>, per_class_accuracy |-> <<>>,
                  confusion |-> ZeroMatrix(n)]

NoFlags == [use_prior |-> FALSE, use_crf |-> FALSE, visualize |-> FALSE]

HelperIdle ==
    /\ target = <<>>
    /\ loss = <<>>
    /\ loss_vec = <<>>
    /\ acc_dict = <<>>
    /\ pairs = <<>>
    /\ calls = 0
    /\ pixels_seen = 0

RunIdle ==
    /\ variant = "none"
    /\ cfg = <<>>
    /\ phase = "idle"
    /\ call = "none"
    /\ err = "none"
    /\ runs = 0
    /\ work = 0
    /\ batch_idx = 0
    /\ start_index = 0
    /\ flags = NoFlags
    /\ class_correct = <<>>
    /\ class_jacard_or = <<>>
    /\ correct = 0
    /\ sum_loss = Zero
    /\ batches_done = 0
    /\ weights = 0
    /\ saved = -1
    /\ train_stats = <<>>
    /\ test_stats = <<>>
    /\ reports = <<>>
    /\ ops = <<>>
    /\ processed = <<>>
    /\ inv_pairs = <<>>
    /\ conf_start = <<>>

PriorIdle ==
    /\ distribution = <<>>
    /\ prior = <<>>
    /\ raw_output = <<>>
    /\ output = <<>>
    /\ history = <<>>
    /\ stage = "idle"
    /\ sample_i = 0

\* ------------------------------------------------------------- helper specifications
\* get_per_class_accuracy applied on its own to batches drawn from bounded sets,
\* accumulating into a matrix that starts at zero.
CountPairs(p, t, old) ==
    [a \in DOMAIN old |-> [b \in DOMAIN old[a] |->
        old[a][b] + Cardinality({k \in DOMAIN p : p[k] = a /\ t[k] = b})]]

AccInit ==
    /\ \E n \in ClassCounts :
        /\ acc_dict = ZeroMatrix(n)
        /\ pairs = ZeroMatrix(n)
    /\ target = <<>>
    /\ loss = <<>>
    /\ loss_vec = <<>>
    /\ calls = 0
    /\ pixels_seen = 0
    /\ RunIdle
    /\ PriorIdle

CallAccuracy ==
    /\ calls < MaxCalls
    /\ \E p \in LabelMaps(AccPixels, len(acc_dict)),
          t \in LabelMaps(AccPixels, len(acc_dict)) :
        /\ acc_dict' = get_per_class_accuracy(p, t, acc_dict)
        /\ pairs' = CountPairs(p, t, pairs)
    /\ calls' = calls + 1
    /\ pixels_seen' = pixels_seen + AccPixels
    /\ UNCHANGED <<prior_vars, target, loss, loss_vec, run_vars>>

\* the scenario batch: one 2 x 2 image, prediction [[0,0],[1,1]], target [[0,1],[1,1]]
ScenarioPred == <<0, 0, 1, 1>>

ScenarioTarget == <<0, 1, 1, 1>>

CallScenario ==
    /\ calls = 0
    /\ len(acc_dict) = 2
    /\ acc_dict' = get_per_class_accuracy(ScenarioPred, ScenarioTarget, acc_dict)
    /\ pairs' = CountPairs(ScenarioPred, ScenarioTarget, pairs)
    /\ calls' = calls + 1
    /\ pixels_seen' = pixels_seen + Len(ScenarioPred)
    /\ UNCHANGED <<prior_vars, target, loss, loss_vec, run_vars>>

AccNext == CallAccuracy \/ CallScenario

AccSpec == AccInit /\ [][AccNext]_vars

\* get_per_class_loss applied on its own: Init draws the batch, the action applies it.
LossInit ==
    /\ \E n \in ClassCounts :
        /\ target \in LabelMaps(LossPixels, n)
        /\ loss_vec = [i \in Classes(n) |-> Zero]     \* torch.zeros(num_classes)
    /\ loss \in [1 .. LossPixels -> LossVals]
    /\ acc_dict = <<>>
    /\ pairs = <<>>
    /\ calls = 0
    /\ pixels_seen = 0
    /\ RunIdle
    /\ PriorIdle

CallLoss ==
    /\ calls = 0
    /\ loss_vec' = get_per_class_loss(loss, target, len(loss_vec))
    /\ calls' = 1
    /\ UNCHANGED <<prior_vars, target, loss, acc_dict, pairs, pixels_seen, run_vars>>

LossNext == CallLoss

LossSpec == LossInit /\ [][LossNext]_vars

\* ------------------------------------------------------------- SegmentationTrainer
\* pixels of one batch
BatchPixels == cfg.batch_size * PixPerImage

\* nn.CrossEntropyLoss(reduction = "none") on the model's output: the element-wise
\* loss.  The output is abstracted to its argmax; a pixel the argmax gets right has
\* the smaller loss.
loss_func_none(p, t) == [k \in DOMAIN p |-> IF p[k] = t[k] THEN 1 ELSE 2]

\* nn.CrossEntropyLoss(): the mean of the element-wise loss
loss_func_mean(p, t) ==
    LET l == loss_func_none(p, t) IN Rat(SeqSum(l), Len(l))

\* torch.where(pred.eq(i) & target.eq(i), 1, 0).sum().item()
correct_pixels(p, t, i) == Cardinality({k \in DOMAIN p : p[k] = i /\ t[k] = i})

\* torch.where(pred.eq(i) | target.eq(i), 1, 0).sum().item()
jaccard_or_pixels(p, t, i) == Cardinality({k \in DOMAIN p : p[k] = i \/ t[k] = i})

\* the "record pixel measurements" loop
add_class_correct(p, t, cc) == [i \in DOMAIN cc |-> cc[i] + correct_pixels(p, t, i)]

add_class_jacard_or_and(p, t, cj) == [i \in DOMAIN cj |-> cj[i] + correct_pixels(p, t, i)]

add_class_jacard_or_sum(p, t, cj) ==
    [i \in DOMAIN cj |-> cj[i] + Cardinality({k \in DOMAIN p : p[k] = i})
                               + Cardinality({k \in DOMAIN p : t[k] = i})]

add_class_jacard_or(p, t, cj) == [i \in DOMAIN cj |-> cj[i] + jaccard_or_pixels(p, t, i)]

\* np.diagonal(confusion).copy()
diagonal(m) == [i \in DOMAIN m |-> m[i][i]]

\* torch.sum(loss_vec)
RECURSIVE VecSum(_, _)
VecSum(v, n) == IF n = 0 THEN Zero ELSE RatAdd(v[n - 1], VecSum(v, n - 1))

\* np.mean(list(map(lambda x, y: x/y, class_correct_pixels, class_jacard_or)))
RECURSIVE RatioSum(_, _, _)
RatioSum(x, y, n) ==
    IF n = 0 THEN Zero ELSE RatAdd(Rat(x[n - 1], y[n - 1]), RatioSum(x, y, n - 1))

RECURSIVE RatioSumMasked(_, _, _)
RatioSumMasked(x, y, n) ==
    IF n = 0 THEN Zero
    ELSE RatAdd(IF y[n - 1] = 0 THEN Zero ELSE Rat(x[n - 1], y[n - 1]),
                RatioSumMasked(x, y, n - 1))

print_log_masked(class_correct_pixels, jacard_or, l, num_samples, bs, name) ==
    LET total_samples == num_samples * bs * PixPerImage
        ratios == RatioSumMasked(class_correct_pixels, jacard_or, len(jacard_or))
    IN  [err |-> "none", loss |-> Rat(l[1], l[2] * num_samples * bs),
         accuracy |-> Rat(100 * SetSum(class_correct_pixels, DOMAIN class_correct_pixels),
                          total_samples),
         jaccard_accuracy |-> Rat(ratios[1], ratios[2] * len(jacard_or)),
         report |-> [name |-> name, at |-> "loop", total_samples |-> total_samples]]

\* print_log, lines 169-175: the values it computes and prints, or the exception
\* of the int / int division x/y
print_log(class_correct_pixels, jacard_or, l, num_samples, bs, name) ==
    LET mean_loss == Rat(l[1], l[2] * num_samples * bs)
        total_samples == num_samples * bs * PixPerImage
        accuracy == Rat(100 * SetSum(class_correct_pixels, DOMAIN class_correct_pixels),
                        total_samples)
        ratios == RatioSum(class_correct_pixels, jacard_or, len(jacard_or))
    IN  IF \E c \in DOMAIN jacard_or : jacard_or[c] = 0
        THEN [err |-> "ZeroDivisionError"]
        ELSE [err |-> "none", loss |-> mean_loss, accuracy |-> accuracy,
              jaccard_accuracy |-> Rat(ratios[1], ratios[2] * len(jacard_or)),
              report |-> [name |-> name, at |-> "loop", total_samples |-> total_samples]]

\* print_log, lines 177-190: what it appends, train_stats' side
print_log_train_stats(ts, pl, test) ==
    IF test THEN ts
    ELSE [ts EXCEPT !.loss = Append(@, pl.loss), !.accuracy = Append(@, pl.accuracy)]

\* print_log, lines 177-190: what it appends, test_stats' side
print_log_test_stats(tes, pl, test) ==
    IF test
    THEN [tes EXCEPT !.loss = Append(@, pl.loss), !.accuracy = Append(@, pl.accuracy),
                     !.jaccard_accuracy = Append(@, pl.jaccard_accuracy)]
    ELSE [tes EXCEPT !.jaccard_accuracy = Append(@, pl.jaccard_accuracy)]

\* model.save(): writes the checkpoint, or fails and writes nothing
model_save(ok, w, old) == IF ok THEN w ELSE old

save_swallowed(ok) == "none"

\* self.model.save() as the loops call it, with nothing around it to catch a failure:
\* the exception leaves the call (the specification names it CheckpointError)
save_raises_out(ok) == IF ok THEN "none" ELSE "CheckpointError"

\* self.optimizer.step(): the one place the parameters are written
optimizer_step(w) == w + 1

no_grad_forward_stepped(w) == w + 1

\* a test batch, run under torch.no_grad() with no call on the optimizer: the
\* parameters after it
no_grad_forward(w) == w

\* the locals [0] * self.num_classes
zero_counts(n) == [i \in Classes(n) |-> 0]

skipped_through(idx, s) == idx <= s

\* if batch_idx < start_index: continue
skipped(idx, s) == idx < s

\* batch_idx % self.log_spacing == 0
train_log_point(idx) == idx % cfg.log_spacing = 0

train_save_point_on_log(idx) == idx % cfg.log_spacing = 0

\* batch_idx % self.save_spacing == 0
train_save_point(idx) == idx % cfg.save_spacing = 0

\* batches_done % self.log_spacing == 0
test_log_point(done) == done % cfg.log_spacing = 0

Configs(v) ==
    [num_classes : IF v = "trainer" THEN ClassCounts ELSE {2},
     batch_size : BatchSizes, log_spacing : Spacings, save_spacing : Spacings,
     n_batches : 1 .. MaxBatches,
     per_class : IF v = "trainer" THEN {FALSE} ELSE BOOLEAN]

Init ==
    /\ HelperIdle
    /\ PriorIdle
    /\ variant \in {"trainer", "2class"}
    /\ cfg \in Configs(variant)
    /\ phase = "idle"
    /\ call = "none"
    /\ err = "none"
    /\ runs = 0
    /\ work = 0
    /\ batch_idx = 0
    /\ start_index = 0
    /\ flags = NoFlags
    /\ class_correct = zero_counts(cfg.num_classes)
    /\ class_jacard_or = zero_counts(cfg.num_classes)
    /\ correct = 0
    /\ sum_loss = Zero
    /\ batches_done = 0
    /\ weights = 0
    /\ saved = -1
    /\ train_stats = EmptyStats(cfg.num_classes)
    /\ test_stats = EmptyStats(cfg.num_classes)
    /\ reports = <<>>
    /\ ops = <<>>
    /\ processed = <<>>
    /\ inv_pairs = ZeroMatrix(cfg.num_classes)
    /\ conf_start = ZeroMatrix(cfg.num_classes)

\* train(), lines 44-50: the locals before the loop
StartTrain ==
    /\ variant = "trainer"
    /\ phase = "idle"
    /\ runs < MaxRuns
    /\ \E s \in 0 .. MaxBatches - 1 :
        /\ start_index' = s
        /\ work' = work + (IF s < cfg.n_batches THEN cfg.n_batches - s ELSE 0)
    /\ work' <= MaxBatches
    /\ phase' = "train"
    /\ call' = "train"
    /\ runs' = runs + 1
    /\ batch_idx' = 0
    /\ class_correct' = zero_counts(cfg.num_classes)
    /\ class_jacard_or' = zero_counts(cfg.num_classes)
    /\ sum_loss' = Zero
    /\ ops' = <<>>
    /\ processed' = <<>>
    /\ inv_pairs' = ZeroMatrix(cfg.num_classes)
    /\ conf_start' = train_stats.confusion
    /\ UNCHANGED <<prior_vars, helper_vars, variant, cfg, err, flags, correct, batches_done, weights,
                   saved, train_stats, test_stats, reports>>

\* train(), line 54: a batch before start_index
TrainSkip ==
    /\ variant = "trainer"
    /\ phase = "train"
    /\ batch_idx < cfg.n_batches
    /\ skipped(batch_idx, start_index)
    /\ batch_idx' = batch_idx + 1
    /\ ops' = <<>>
    /\ UNCHANGED <<prior_vars, helper_vars, variant, cfg, call, phase, err, runs, work, start_index, flags,
                   class_correct, class_jacard_or, correct, sum_loss, batches_done,
                   weights, saved, train_stats, test_stats, reports, processed,
                   inv_pairs, conf_start>>

\* train(), lines 55-99: one processed batch
TrainBatch ==
    /\ variant = "trainer"
    /\ phase = "train"
    /\ batch_idx < cfg.n_batches
    /\ ~skipped(batch_idx, start_index)
    /\ \E p \in LabelMaps(BatchPixels, cfg.num_classes),
          t \in LabelMaps(BatchPixels, cfg.num_classes),
          save_ok \in BOOLEAN :
        \E cc \in {add_class_correct(p, t, class_correct)},
           cj \in {add_class_jacard_or(p, t, class_jacard_or)},
           lv \in {get_per_class_loss(loss_func_none(p, t), t, cfg.num_classes)},
           conf \in {get_per_class_accuracy(p, t, train_stats.confusion)} :
        \E sl \in {RatAdd(sum_loss, VecSum(lv, cfg.num_classes))} :
        \E pl \in {print_log(cc, cj, sl, batch_idx + 1, cfg.batch_size, "Training Set")} :
        LET ts1 == [train_stats EXCEPT !.per_class_loss = Append(@, lv),
                                       !.confusion = conf]
            is_log == train_log_point(batch_idx)
            is_save == train_save_point(batch_idx)
            ts2 == IF is_log
                   THEN [ts1 EXCEPT !.per_class_accuracy = Append(@, diagonal(conf))]
                   ELSE ts1
            log_raises == is_log /\ pl.err # "none"
            save_raises == ~log_raises /\ is_save /\ save_raises_out(save_ok) # "none"
            step_ops == <<"zero_grad", "forward", "loss", "backward", "step", "confusion">>
        IN  /\ class_correct' = cc
            /\ class_jacard_or' = cj
            /\ sum_loss' = sl
            /\ weights' = optimizer_step(weights)
            /\ processed' = Append(processed, batch_idx)
            /\ inv_pairs' = CountPairs(p, t, inv_pairs)
            /\ train_stats' = IF is_log /\ ~log_raises
                              THEN print_log_train_stats(ts2, pl, FALSE)
                              ELSE ts2
            /\ test_stats' = IF is_log /\ ~log_raises
                             THEN print_log_test_stats(test_stats, pl, FALSE)
                             ELSE test_stats
            /\ reports' = IF is_log /\ ~log_raises THEN Append(reports, pl.report)
                          ELSE reports
            /\ saved' = IF is_save /\ ~log_raises
                        THEN model_save(save_ok, optimizer_step(weights), saved)
                        ELSE saved
            /\ ops' = step_ops \o (IF is_log THEN <<"log">> ELSE <<>>)
                               \o (IF is_save /\ ~log_raises THEN <<"save">> ELSE <<>>)
            /\ err' = IF log_raises THEN pl.err
                      ELSE IF save_raises THEN save_raises_out(save_ok) ELSE "none"
            /\ phase' = IF log_raises \/ save_raises THEN "failed" ELSE "train"
            /\ batch_idx' = IF log_raises \/ save_raises THEN batch_idx ELSE batch_idx + 1
    /\ UNCHANGED <<prior_vars, helper_vars, variant, cfg, call, runs, work, start_index, flags, correct,
                   batches_done, conf_start>>

\* train(): the loader is exhausted and train returns
TrainEnd ==
    /\ variant = "trainer"
    /\ phase = "train"
    /\ batch_idx = cfg.n_batches
    /\ phase' = "idle"
    /\ ops' = <<>>
    /\ UNCHANGED <<prior_vars, helper_vars, variant, cfg, call, err, runs, work, batch_idx, start_index, flags,
                   class_correct, class_jacard_or, correct, sum_loss, batches_done,
                   weights, saved, train_stats, test_stats, reports, processed,
                   inv_pairs, conf_start>>

\* test(), lines 102-116: the locals before the loop
StartTest ==
    /\ variant = "trainer"
    /\ phase = "idle"
    /\ runs < MaxRuns
    /\ work + cfg.n_batches <= MaxBatches
    /\ work' = work + cfg.n_batches
    /\ flags' \in [use_prior : BOOLEAN, use_crf : BOOLEAN, visualize : BOOLEAN]
    /\ phase' = "test"
    /\ call' = "test"
    /\ runs' = runs + 1
    /\ batch_idx' = 0
    /\ batches_done' = 0
    /\ class_correct' = zero_counts(cfg.num_classes)
    /\ class_jacard_or' = zero_counts(cfg.num_classes)
    /\ sum_loss' = Zero
    /\ ops' = <<>>
    /\ processed' = <<>>
    /\ inv_pairs' = ZeroMatrix(cfg.num_classes)
    /\ conf_start' = test_stats.confusion
    /\ UNCHANGED <<prior_vars, helper_vars, variant, cfg, err, start_index, correct, weights, saved,
                   train_stats, test_stats, reports>>

\* test(), lines 118-164: one batch
TestBatch ==
    /\ variant = "trainer"
    /\ phase = "test"
    /\ batch_idx < cfg.n_batches
    /\ \E p \in LabelMaps(BatchPixels, cfg.num_classes),
          t \in LabelMaps(BatchPixels, cfg.num_classes),
          save_ok \in BOOLEAN :
        \E tl \in {RatAdd(sum_loss, loss_func_mean(p, t))},
           cc \in {add_class_correct(p, t, class_correct)},
           cj \in {add_class_jacard_or(p, t, class_jacard_or)},
           conf \in {get_per_class_accuracy(p, t, test_stats.confusion)},
           done \in {batches_done + 1} :
        \E pl \in {print_log(cc, cj, tl, done, cfg.batch_size, "Test set")} :
        LET
            is_log == test_log_point(done)
            tes1 == [test_stats EXCEPT !.confusion = conf]
            tes2 == IF is_log
                    THEN [tes1 EXCEPT !.per_class_accuracy = Append(@, diagonal(conf))]
                    ELSE tes1
            log_raises == is_log /\ pl.err # "none"
            save_raises == is_log /\ ~log_raises /\ save_raises_out(save_ok) # "none"
            batch_ops == <<"forward">> \o (IF flags.use_prior THEN <<"prior">> ELSE <<>>)
                                       \o (IF flags.use_crf THEN <<"crf">> ELSE <<>>)
                                       \o <<"loss", "confusion">>
        IN  /\ sum_loss' = tl
            /\ class_correct' = cc
            /\ class_jacard_or' = cj
            /\ batches_done' = done
            /\ weights' = no_grad_forward(weights)
            /\ processed' = Append(processed, batch_idx)
            /\ inv_pairs' = CountPairs(p, t, inv_pairs)
            /\ train_stats' = IF is_log /\ ~log_raises
                              THEN print_log_train_stats(train_stats, pl, TRUE)
                              ELSE train_stats
            /\ test_stats' = IF is_log /\ ~log_raises
                             THEN print_log_test_stats(tes2, pl, TRUE)
                             ELSE tes2
            /\ reports' = IF is_log /\ ~log_raises THEN Append(reports, pl.report)
                          ELSE reports
            /\ saved' = IF is_log /\ ~log_raises
                        THEN model_save(save_ok, no_grad_forward(weights), saved)
                        ELSE saved
            /\ ops' = batch_ops
                      \o (IF is_log THEN <<"log">> ELSE <<>>)
                      \o (IF is_log /\ ~log_raises THEN <<"save">> ELSE <<>>)
                      \o (IF is_log /\ ~log_raises /\ ~save_raises /\ flags.visualize
                          THEN <<"visualize">> ELSE <<>>)
            /\ err' = IF log_raises THEN pl.err
                      ELSE IF save_raises THEN save_raises_out(save_ok) ELSE "none"
            /\ phase' = IF log_raises \/ save_raises THEN "failed" ELSE "test"
            /\ batch_idx' = IF log_raises \/ save_raises THEN batch_idx ELSE batch_idx + 1
    /\ UNCHANGED <<prior_vars, helper_vars, variant, cfg, call, runs, work, start_index, flags, correct,
                   conf_start>>

\* test(): the loader is exhausted and test returns (nothing follows the loop)
TestEnd ==
    /\ variant = "trainer"
    /\ phase = "test"
    /\ batch_idx = cfg.n_batches
    /\ phase' = "idle"
    /\ flags' = NoFlags
    /\ ops' = <<>>
    /\ UNCHANGED <<prior_vars, helper_vars, variant, cfg, call, err, runs, work, batch_idx, start_index,
                   class_correct, class_jacard_or, correct, sum_loss, batches_done,
                   weights, saved, train_stats, test_stats, reports, processed,
                   inv_pairs, conf_start>>

\* ------------------------------------------------------------- fcn_2class.py
\* pred.eq(target.view_as(pred)).sum().item()
eq_pixels(p, t) == Cardinality({k \in DOMAIN p : p[k] = t[k]})

\* print_log of fcn_2class.py: it only prints
print_log_2class(num_samples, bs, name, at) ==
    [name |-> name, at |-> at, total_samples |-> num_samples * bs * PixPerImage]

\* len(test_loader.dataset)
dataset_len == cfg.n_batches * cfg.batch_size

\* batches_done % iters_per_log == 0
test_log_point_2class(done) == done % cfg.log_spacing = 0

\* train(), lines 27-33
StartTrain2 ==
    /\ variant = "2class"
    /\ phase = "idle"
    /\ runs < MaxRuns
    /\ work + cfg.n_batches <= MaxBatches
    /\ work' = work + cfg.n_batches
    /\ phase' = "train"
    /\ call' = "train"
    /\ runs' = runs + 1
    /\ batch_idx' = 0
    /\ correct' = 0
    /\ sum_loss' = Zero
    /\ acc_dict' = ZeroMatrix(2)
    /\ ops' = <<>>
    /\ processed' = <<>>
    /\ inv_pairs' = ZeroMatrix(2)
    /\ conf_start' = ZeroMatrix(2)
    /\ UNCHANGED <<prior_vars, target, loss, loss_vec, pairs, calls, pixels_seen, variant, cfg, err,
                   start_index, flags, class_correct, class_jacard_or, batches_done,
                   weights, saved, train_stats, test_stats, reports>>

\* train(), lines 36-66: one batch
TrainBatch2 ==
    /\ variant = "2class"
    /\ phase = "train"
    /\ batch_idx < cfg.n_batches
    /\ \E p \in LabelMaps(BatchPixels, 2), t \in LabelMaps(BatchPixels, 2),
          save_ok \in BOOLEAN :
        LET l == loss_func_none(p, t)
            lv == get_per_class_loss(l, t, 2)
            is_log == train_log_point(batch_idx)
            is_save == train_save_point(batch_idx)
            save_raises == is_save /\ save_raises_out(save_ok) # "none"
        IN  /\ correct' = correct + eq_pixels(p, t)
            /\ sum_loss' = RatAdd(sum_loss, VecSum(lv, 2))
            /\ weights' = optimizer_step(weights)
            /\ acc_dict' = IF cfg.per_class THEN get_per_class_accuracy(p, t, acc_dict)
                           ELSE acc_dict
            /\ processed' = Append(processed, batch_idx)
            /\ inv_pairs' = CountPairs(p, t, inv_pairs)
            /\ reports' = IF is_log
                          THEN Append(reports, print_log_2class(batch_idx + 1,
                                          cfg.batch_size, "Training Set", "loop"))
                          ELSE reports
            /\ saved' = IF is_save THEN model_save(save_ok, optimizer_step(weights), saved) ELSE saved
            /\ ops' = <<"zero_grad", "forward", "loss", "backward", "step">>
                      \o (IF cfg.per_class THEN <<"confusion">> ELSE <<>>)
                      \o (IF is_log THEN <<"log">> ELSE <<>>)
                      \o (IF is_save THEN <<"save">> ELSE <<>>)
            /\ err' = IF save_raises THEN save_raises_out(save_ok) ELSE "none"
            /\ phase' = IF save_raises THEN "failed" ELSE "train"
            /\ batch_idx' = IF save_raises THEN batch_idx ELSE batch_idx + 1
    /\ UNCHANGED <<prior_vars, target, loss, loss_vec, pairs, calls, pixels_seen, variant, cfg, call, runs,
                   work, start_index, flags, class_correct, class_jacard_or, batches_done,
                   train_stats, test_stats, conf_start>>

\* train(): the loader is exhausted and train returns
TrainEnd2 ==
    /\ variant = "2class"
    /\ phase = "train"
    /\ batch_idx = cfg.n_batches
    /\ phase' = "idle"
    /\ ops' = <<>>
    /\ UNCHANGED <<prior_vars, helper_vars, variant, cfg, call, err, runs, work, batch_idx, start_index, flags,
                   class_correct, class_jacard_or, correct, sum_loss, batches_done,
                   weights, saved, train_stats, test_stats, reports, processed,
                   inv_pairs, conf_start>>

\* test(), lines 107-117
StartTest2 ==
    /\ variant = "2class"
    /\ phase = "idle"
    /\ runs < MaxRuns
    /\ work + cfg.n_batches <= MaxBatches
    /\ work' = work + cfg.n_batches
    /\ flags' \in [use_prior : {FALSE}, use_crf : BOOLEAN, visualize : BOOLEAN]
    /\ phase' = "test"
    /\ call' = "test"
    /\ runs' = runs + 1
    /\ batch_idx' = 0
    /\ batches_done' = 0
    /\ correct' = 0
    /\ sum_loss' = Zero
    /\ acc_dict' = ZeroMatrix(2)
    /\ ops' = <<>>
    /\ processed' = <<>>
    /\ inv_pairs' = ZeroMatrix(2)
    /\ conf_start' = ZeroMatrix(2)
    /\ UNCHANGED <<prior_vars, target, loss, loss_vec, pairs, calls, pixels_seen, variant, cfg, err,
                   start_index, class_correct, class_jacard_or, weights, saved,
                   train_stats, test_stats, reports>>

\* test(), lines 120-142: one batch
TestBatch2 ==
    /\ variant = "2class"
    /\ phase = "test"
    /\ batch_idx < cfg.n_batches
    /\ \E p \in LabelMaps(BatchPixels, 2), t \in LabelMaps(BatchPixels, 2) :
        LET done == batches_done + 1
            is_log == test_log_point_2class(done)
        IN  /\ sum_loss' = RatAdd(sum_loss, loss_func_mean(p, t))
            /\ correct' = correct + eq_pixels(p, t)
            /\ acc_dict' = get_per_class_accuracy(p, t, acc_dict)
            /\ batches_done' = done
            /\ weights' = no_grad_forward(weights)
            /\ processed' = Append(processed, batch_idx)
            /\ inv_pairs' = CountPairs(p, t, inv_pairs)
            /\ reports' = IF is_log
                          THEN Append(reports, print_log_2class(done, cfg.batch_size,
                                                                "Test set", "loop"))
                          ELSE reports
            /\ ops' = <<"forward", "loss", "confusion">>
                      \o (IF is_log THEN <<"log">> ELSE <<>>)
                      \o (IF is_log /\ flags.visualize THEN <<"visualize">> ELSE <<>>)
    /\ batch_idx' = batch_idx + 1
    /\ UNCHANGED <<prior_vars, target, loss, loss_vec, pairs, calls, pixels_seen, variant, cfg, call, phase,
                   err, runs, work, start_index, flags, class_correct, class_jacard_or,
                   saved, train_stats, test_stats, conf_start>>

\* test(), line 144: the report after the loop, then test returns
TestEnd2 ==
    /\ variant = "2class"
    /\ phase = "test"
    /\ batch_idx = cfg.n_batches
    /\ reports' = Append(reports, print_log_2class(dataset_len, 1, "Test set", "end"))
    /\ phase' = "idle"
    /\ flags' = NoFlags
    /\ ops' = <<"log">>
    /\ UNCHANGED <<prior_vars, helper_vars, variant, cfg, call, err, runs, work, batch_idx, start_index,
                   class_correct, class_jacard_or, correct, sum_loss, batches_done,
                   weights, saved, train_stats, test_stats, processed, inv_pairs,
                   conf_start>>

Next ==
    \/ StartTrain \/ TrainSkip \/ TrainBatch \/ TrainEnd
    \/ StartTest \/ TestBatch \/ TestEnd
    \/ StartTrain2 \/ TrainBatch2 \/ TrainEnd2
    \/ StartTest2 \/ TestBatch2 \/ TestEnd2

Spec == Init /\ [][Next]_vars

\* ------------------------------------------------------------- prior correction
\* test(), lines 111-129 and the argmax of line 138, for one batch with use_prior and
\* without CRF.  The model's output is log-probabilities (line 123 exponentiates
\* it), followed here at one pixel position.  A score is kept as the exact expression
\* that produced it:
\*   [form |-> "lin", key |-> q]             the rational q
\*   [form |-> "log", arg |-> a]             ln(a)
\*   [form |-> "sub", arg |-> a, off |-> c]  a - c, where a is not a plain rational
\*   [form |-> "sig", arg |-> a]             1 / (1 + e^(-a))
\*   [form |-> "norm", arg |-> a]            a divided by the sum over the class axis
\*   [form |-> "nan"]                        not a number
\* probabilities the model's output is the logarithm of
Probs == {<<1, 4>>, <<1, 2>>}

\* entries of the class distribution
PriorVals == {1, 3}

One == Rat(1, 1)

RatSub(x, y) == Rat(x[1] * y[2] - y[1] * x[2], x[2] * y[2])

RatDiv(x, y) == TrueDiv(x[1] * y[2], x[2] * y[1])

RatLess(x, y) == x[1] * y[2] < y[1] * x[2]

Lin(q) == [form |-> "lin", key |-> q]

Log(a) == [form |-> "log", arg |-> a]

NotANumber == [form |-> "nan"]

\* the value is below zero
RECURSIVE Negative(_)
Negative(a) ==
    CASE a.form = "lin" -> RatLess(a.key, Zero)
      [] a.form = "log" -> a.arg.form \in {"sig", "norm"}
                           \/ (a.arg.form = "lin" /\ RatLess(a.arg.key, One))
      [] a.form = "sub" -> Negative(a.arg) /\ ~RatLess(a.off, Zero)
      [] a.form \in {"sig", "norm"} -> FALSE

\* a < b for two scores of one sample that went through the same transformations
RECURSIVE Less(_, _)
Less(a, b) ==
    CASE a.form = "lin" /\ b.form = "lin" -> RatLess(a.key, b.key)
      [] a.form = "sub" /\ b.form = "sub" /\ a.off = b.off -> Less(a.arg, b.arg)
      [] a.form = b.form /\ a.form \in {"log", "sig", "norm"} -> Less(a.arg, b.arg)

\* np.e ** x
exponentiate(a) ==
    CASE a.form = "nan" -> NotANumber
      [] a.form = "log" -> a.arg

\* x - c
subtract(a, c) ==
    CASE a.form = "nan" -> NotANumber
      [] a.form = "lin" -> Lin(RatSub(a.key, c))
      [] OTHER -> [form |-> "sub", arg |-> a, off |-> c]

\* torch.sigmoid(x)
sigmoid(a) == IF a.form = "nan" THEN NotANumber ELSE [form |-> "sig", arg |-> a]

\* v / torch.sum(v, dim = 0) for the scores v of one sample: a not-a-number entry
\* makes the sum, and with it every quotient, not a number
renormalize(v) ==
    IF \E c \in DOMAIN v : v[c].form = "nan"
    THEN [c \in DOMAIN v |-> NotANumber]
    ELSE [c \in DOMAIN v |-> [form |-> "norm", arg |-> v[c]]]

\* np.log(x): not a number below zero; it undoes np.e ** x
logarithm(a) ==
    CASE a.form = "nan" -> NotANumber
      [] Negative(a) -> NotANumber
      [] OTHER -> Log(a)

\* torch.argmax over the class axis: the first of the largest scores; with
\* not-a-number entries the result is the index of one of them
ArgmaxSet(v) ==
    IF \E c \in DOMAIN v : v[c].form = "nan"
    THEN {c \in DOMAIN v : v[c].form = "nan"}
    ELSE {c \in DOMAIN v : /\ \A d \in DOMAIN v : ~Less(v[c], v[d])
                           /\ \A d \in DOMAIN v : d < c => Less(v[d], v[c])}

\* lines 112-116 on the distribution d: scale each class by its own mean, divide
\* by the sum over the classes, subtract from one
penalty(d) ==
    LET scaled == [c \in DOMAIN d |-> TrueDiv(d[c], d[c])]
        normalization == VecSum(scaled, len(scaled))
    IN  [c \in DOMAIN d |-> RatSub(One, RatDiv(scaled[c], normalization))]

PriorInit ==
    /\ HelperIdle
    /\ RunIdle
    /\ \E n \in ClassCounts, b \in BatchSizes :
        /\ distribution \in [Classes(n) -> PriorVals]
        /\ raw_output \in [0 .. b - 1 -> [Classes(n) -> {Log(Lin(q)) : q \in Probs}]]
        /\ history = [s \in 0 .. b - 1 |-> <<>>]
    /\ prior = distribution          \* line 111
    /\ output = raw_output           \* line 121
    /\ stage = "prior"
    /\ sample_i = 0

\* every sample of the batch gets the transformation named name
Whole(name) == [s \in DOMAIN history |-> Append(history[s], name)]

\* only sample i gets it
Single(name) == [history EXCEPT ![sample_i] = Append(@, name)]

\* lines 112-116
BuildPenalty ==
    /\ stage = "prior"
    /\ prior' = penalty(prior)
    /\ stage' = "exp"
    /\ UNCHANGED <<helper_vars, run_vars, distribution, raw_output, output, history, sample_i>>

\* line 123: output = np.e**(output), the whole batch
Exponentiate ==
    /\ stage = "exp"
    /\ output' = [s \in DOMAIN output |-> [c \in DOMAIN output[s] |->
                                              exponentiate(output[s][c])]]
    /\ history' = Whole("exp")
    /\ sample_i' = 0
    /\ stage' = "sub"
    /\ UNCHANGED <<helper_vars, run_vars, distribution, prior, raw_output>>

\* line 125: output[i] = output[i] - prior
Subtract ==
    /\ stage = "sub"
    /\ output' = [output EXCEPT ![sample_i] =
                     [c \in DOMAIN @ |-> subtract(@[c], prior[c])]]
    /\ history' = Single("sub")
    /\ stage' = "sig"
    /\ UNCHANGED <<helper_vars, run_vars, distribution, prior, raw_output, sample_i>>

\* line 126: output[i] = torch.sigmoid(output[i])
Sigmoid ==
    /\ stage = "sig"
    /\ output' = [output EXCEPT ![sample_i] = [c \in DOMAIN @ |-> sigmoid(@[c])]]
    /\ history' = Single("sig")
    /\ stage' = "norm"
    /\ UNCHANGED <<helper_vars, run_vars, distribution, prior, raw_output, sample_i>>

\* lines 127-128: output[i] /= torch.sum(output[i], dim = 0)
Renormalize ==
    /\ stage = "norm"
    /\ output' = [output EXCEPT ![sample_i] = renormalize(@)]
    /\ history' = Single("norm")
    /\ stage' = "log"
    /\ UNCHANGED <<helper_vars, run_vars, distribution, prior, raw_output, sample_i>>

\* line 129, inside the loop body: output = np.log(output), the whole batch; then
\* the loop goes to the next sample or ends
Logarithm ==
    /\ stage = "log"
    /\ output' = [s \in DOMAIN output |-> [c \in DOMAIN output[s] |->
                                              logarithm(output[s][c])]]
    /\ history' = Whole("log")
    /\ sample_i' = sample_i + 1
    /\ stage' = IF sample_i + 1 < len(output) THEN "sub" ELSE "done"
    /\ UNCHANGED <<helper_vars, run_vars, distribution, prior, raw_output>>

PriorNext == BuildPenalty \/ Exponentiate \/ Subtract \/ Sigmoid \/ Renormalize \/ Logarithm

PriorSpec == PriorInit /\ [][PriorNext]_vars

\* ------------------------------------------------------------- helper claims
MatrixTotal(m) == SetSum([r \in DOMAIN m |-> SetSum(m[r], DOMAIN m[r])], DOMAIN m)

RowSum(m, r) == SetSum(m[r], DOMAIN m[r])

\* C1 (as claimed): the cell confusion[predicted class][target class] counts the
\* pixels predicted p with target t, so row p sums to the pixels predicted as p,
\* and the scenario batch turns a zero matrix into [[1,1],[0,2]].
C1_PredictedRowTargetColumn ==
    calls > 0 =>
        /\ \A p \in DOMAIN acc_dict : \A t \in DOMAIN acc_dict :
                acc_dict[p][t] = pairs[p][t]
        /\ \A p \in DOMAIN acc_dict : RowSum(acc_dict, p) = RowSum(pairs, p)
        /\ (pairs = CountPairs(ScenarioPred, ScenarioTarget, ZeroMatrix(2))
                => acc_dict = [r \in 0 .. 1 |->
                                 IF r = 0 THEN [c \in 0 .. 1 |-> 1]
                                 ELSE [c \in 0 .. 1 |-> IF c = 0 THEN 0 ELSE 2]])

\* C2: every call raises the matrix total by the pixels of the batch, so a matrix
\* that started at zero totals the number of pixels processed.
C2_TotalIsPixelsProcessed ==
    MatrixTotal(acc_dict) = pixels_seen

C2_Witness ==
    /\ calls = MaxCalls
    /\ pixels_seen = MaxCalls * AccPixels
    /\ \E r \in DOMAIN acc_dict : \E c \in DOMAIN acc_dict : r # c /\ acc_dict[r][c] > 0

\* C3: loss_vec[c] is the mean of the element-wise loss over the pixels whose target
\* is c, 0 when there is no such pixel, and never the result of a division by zero.
PixelsOf(c) == {k \in DOMAIN target : target[k] = c}

C3_PerClassMeanOrZero ==
    calls = 1 =>
        \A c \in DOMAIN loss_vec :
            /\ loss_vec[c] # NaN
            /\ PixelsOf(c) # {} =>
                 loss_vec[c][1] * Cardinality(PixelsOf(c))
                     = SetSum(loss, PixelsOf(c)) * loss_vec[c][2]
            /\ PixelsOf(c) = {} => loss_vec[c] = Zero

C3_Witness ==
    /\ calls = 1
    /\ \E c \in DOMAIN loss_vec : PixelsOf(c) = {}
    /\ \E c \in DOMAIN loss_vec : Cardinality(PixelsOf(c)) = 2 /\ loss_vec[c] = <<3, 2>>

\* ------------------------------------------------------------- loop claims
InTrainer == variant = "trainer" /\ call \in {"train", "test"}

ColSum(m, c) == SetSum([r \in DOMAIN m |-> m[r][c]], DOMAIN m)

\* the confusion matrix the current (or last) trainer invocation accumulates into
Confusion == IF call = "train" THEN train_stats.confusion ELSE test_stats.confusion

ClassSet == Classes(cfg.num_classes)

\* C4: within a trainer invocation class_correct[c] is the number of processed pixels
\* with predicted = c and target = c, and class_jacard_or[c] the number with
\* predicted = c or target = c, over exactly the batches processed so far in this
\* invocation; both are all zero while no batch has been processed.
C4_CountsAreInvocationTotals ==
    InTrainer =>
        /\ \A c \in ClassSet :
            /\ class_correct[c] = inv_pairs[c][c]
            /\ class_jacard_or[c] = RowSum(inv_pairs, c) + ColSum(inv_pairs, c)
                                        - inv_pairs[c][c]
        /\ MatrixTotal(inv_pairs) = Len(processed) * BatchPixels
        /\ processed = <<>> => \A c \in ClassSet :
                                    class_correct[c] = 0 /\ class_jacard_or[c] = 0

\* a second batch has been added to the first one's counts, past a log point, in an
\* invocation that leaves counts behind for the next one
C4_Witness ==
    /\ InTrainer
    /\ Len(processed) = 2
    /\ reports # <<>>
    /\ SetSum(class_correct, ClassSet) = 3
    /\ \E c \in ClassSet : class_jacard_or[c] > class_correct[c]

\* every pixel processed in this invocation was predicted as its target
AllCorrect == \A p \in ClassSet : \A t \in ClassSet : p # t => inv_pairs[p][t] = 0

\* C5: if predicted = target at every pixel of every processed batch, the batches add
\* nothing to any off-diagonal confusion cell, class_correct = class_jacard_or for
\* every class, and a Jaccard value computed from them is exactly 1.
C5_AllCorrectIsPerfect ==
    (InTrainer /\ AllCorrect) =>
        /\ \A r \in ClassSet : \A c \in ClassSet :
                r # c => Confusion[r][c] = conf_start[r][c]
        /\ \A c \in ClassSet :
                Confusion[c][c] - conf_start[c][c] = inv_pairs[c][c]
        /\ \A c \in ClassSet : class_correct[c] = class_jacard_or[c]
        /\ \A c \in ClassSet : class_jacard_or[c] > 0 =>
                Rat(class_correct[c], class_jacard_or[c]) = <<1, 1>>
        /\ (Len(reports) > 0 /\ "log" \in Range(ops) /\ phase # "failed") =>
                test_stats.jaccard_accuracy[Len(test_stats.jaccard_accuracy)] = <<1, 1>>

C5_Witness ==
    /\ InTrainer
    /\ AllCorrect
    /\ Len(processed) = 2
    /\ "log" \in Range(ops)
    /\ phase # "failed"
    /\ test_stats.jaccard_accuracy # <<>>

\* C6: when a trainer loop reaches print_log with class_jacard_or[c] = 0 for some
\* class, the step ends in an error that leaves the call, and no report is printed
\* and nothing is appended to a loss, accuracy or Jaccard log at that log point.
LogReachedWithEmptyUnion ==
    /\ variant = "trainer"
    /\ processed' # processed
    /\ "log" \in Range(ops')
    /\ \E c \in ClassSet : class_jacard_or'[c] = 0

C6_EmptyUnionRaises ==
    [][LogReachedWithEmptyUnion =>
        /\ phase' = "failed"
        /\ err' = "ZeroDivisionError"
        /\ reports' = reports
        /\ train_stats'.jaccard_accuracy = train_stats.jaccard_accuracy
        /\ test_stats'.jaccard_accuracy = test_stats.jaccard_accuracy
        /\ train_stats'.loss = train_stats.loss
        /\ train_stats'.accuracy = train_stats.accuracy
        /\ test_stats'.loss = test_stats.loss
        /\ test_stats'.accuracy = test_stats.accuracy]_vars

C6_Witness ==
    /\ variant = "trainer"
    /\ call = "train"
    /\ phase = "failed"
    /\ err = "ZeroDivisionError"
    /\ "log" \in Range(ops)
    /\ cfg.num_classes = 3
    /\ \E c \in ClassSet : class_jacard_or[c] = 0
    /\ \E c \in ClassSet : class_correct[c] > 0

\* the statistics sequences of a statistics object
Logs(st) == [loss |-> st.loss, accuracy |-> st.accuracy,
             jaccard_accuracy |-> st.jaccard_accuracy,
             per_class_loss |-> st.per_class_loss,
             per_class_accuracy |-> st.per_class_accuracy]

\* each sequence of new named in names is the matching sequence of old plus k entries
\* at its end; every other sequence is the same in both
Grown(old, new, names, k) ==
    \A f \in DOMAIN Logs(old) :
        IF f \in names
        THEN /\ Len(Logs(new)[f]) = Len(Logs(old)[f]) + k
             /\ SubSeq(Logs(new)[f], 1, Len(Logs(old)[f])) = Logs(old)[f]
        ELSE Logs(new)[f] = Logs(old)[f]

TrainLogs == {"loss", "accuracy", "jaccard_accuracy", "per_class_loss", "per_class_accuracy"}

\* what test() keeps: it has no per-class loss
TestLogs == {"loss", "accuracy", "jaccard_accuracy", "per_class_accuracy"}

BatchStep == variant = "trainer" /\ processed' # processed /\ phase' # "failed"

\* C7 (as claimed): a train batch that is a log point appends exactly one entry to each
\* of the five train_stats sequences, a train batch that is not appends none, and train
\* never appends to test_stats; test appends one entry per log point to test_stats'
\* sequences only.
C7_AppendOnlyAtLogPoints ==
    [][BatchStep =>
        /\ call' = "train" =>
            /\ Grown(train_stats, train_stats', TrainLogs,
                     IF "log" \in Range(ops') THEN 1 ELSE 0)
            /\ Grown(test_stats, test_stats', {}, 0)
        /\ call' = "test" =>
            /\ Grown(test_stats, test_stats', TestLogs,
                     IF "log" \in Range(ops') THEN 1 ELSE 0)
            /\ Grown(train_stats, train_stats', {}, 0)]_vars

\* the loader indices first .. last - 1, in order
RECURSIVE Indices(_, _)
Indices(first, last) ==
    IF first >= last THEN <<>> ELSE <<first>> \o Indices(first + 1, last)

\* the confusion matrix has grown, since the invocation started, by the pixels of the
\* processed batches and nothing else
ConfusionIsProcessedPixels ==
    /\ \A r \in ClassSet : \A c \in ClassSet :
            Confusion[r][c] - conf_start[r][c] = inv_pairs[c][r]
    /\ MatrixTotal(Confusion) - MatrixTotal(conf_start) = Len(processed) * BatchPixels

\* C8: train(epoch, start_index = s) processes exactly the batches s .. N-1 in order,
\* and a batch before s changes nothing but the loop position: no model call, no
\* optimizer step, no count, no log, no checkpoint.
C8_StartIndexSkips ==
    /\ [](variant = "trainer" /\ call = "train" =>
            /\ (phase = "train" =>
                    processed = Indices(start_index, batch_idx))
            /\ (phase = "failed" =>
                    processed = Indices(start_index, batch_idx + 1))
            /\ (phase = "idle" =>
                    processed = Indices(start_index, cfg.n_batches))
            /\ weights >= Len(processed)
            /\ ConfusionIsProcessedPixels)
    /\ [][(variant = "trainer" /\ phase = "train" /\ batch_idx < cfg.n_batches
            /\ batch_idx < start_index) =>
                /\ ops' = <<>>
                /\ UNCHANGED <<weights, saved, class_correct, class_jacard_or, sum_loss,
                               train_stats, test_stats, reports, processed, inv_pairs,
                               phase, err>>]_vars

C8_Witness ==
    /\ variant = "trainer"
    /\ call = "train"
    /\ phase = "idle"
    /\ start_index = 1
    /\ cfg.n_batches = 2
    /\ processed = <<1>>
    /\ weights = 1
    /\ MatrixTotal(train_stats.confusion) = BatchPixels

\* C9: a model.save() that fails during train leaves train as an error, no batch is
\* processed after it, and the weights are those of the optimizer step just taken:
\* the failed save changed no live state.
C9_SaveFailureAborts ==
    /\ [][(call' = "train" /\ err = "none" /\ err' = "CheckpointError") =>
            /\ phase' = "failed"
            /\ processed' = Append(processed, batch_idx)
            /\ weights' = weights + 1
            /\ ops'[Len(ops')] = "save"
            /\ \E k \in 1 .. Len(ops') - 1 : ops'[k] = "step"
            /\ saved' = saved]_vars
    /\ [][(call = "train" /\ phase = "train" /\ "save" \in Range(ops')
            /\ saved' = saved /\ saved # weights') => err' = "CheckpointError"]_vars
    /\ [][phase = "failed" => UNCHANGED vars]_vars

C9_Witness ==
    /\ call = "train"
    /\ phase = "failed"
    /\ err = "CheckpointError"
    /\ processed = <<0, 1>>
    /\ weights = 2
    /\ saved = 1

\* C10 (as claimed): when an evaluation pass returns, the last thing it has printed is
\* the final report over the whole evaluation set.
C10_FinalReport ==
    (call = "test" /\ phase = "idle") =>
        /\ reports # <<>>
        /\ reports[Len(reports)].at = "end"
        /\ reports[Len(reports)].total_samples
                = cfg.n_batches * cfg.batch_size * PixPerImage

\* ------------------------------------------------------------- weights
OptimizerOps == {"zero_grad", "backward", "step"}

\* C11: a step that belongs to a test invocation (its start, its batches with any
\* use_prior / use_crf / visualize, its return) performs no zero_grad, backward or
\* optimizer step and leaves the weights as they were; the weights change only in a
\* step of train that performs the optimizer step.
C11_TestLeavesWeights ==
    /\ [][(phase = "test" \/ phase' = "test") =>
            /\ weights' = weights
            /\ Range(ops') \cap OptimizerOps = {}]_vars
    /\ [][weights' # weights =>
            /\ phase = "train"
            /\ call' = "train"
            /\ "step" \in Range(ops')]_vars

\* a test batch with prior, CRF and visualization all on, after training moved the weights
C11_Witness ==
    /\ variant = "trainer"
    /\ phase = "test"
    /\ weights > 0
    /\ flags.use_prior /\ flags.use_crf /\ flags.visualize
    /\ {"prior", "crf", "visualize"} \subseteq Range(ops)

\* ------------------------------------------------------------- checkpoints
\* a processed batch of train, in either program
TrainStep == phase = "train" /\ processed' # processed

StateMachineOp(o) == o \in {"forward", "loss", "backward", "step", "log", "save"}

\* optimizer steps taken since the last checkpoint was written or, when the
\* invocation has written none, since the invocation started
Unsaved ==
    IF saved >= 0 /\ weights - saved < Len(processed) THEN weights - saved
    ELSE Len(processed)

C15_DenominatorIsPixelsAccumulated ==
    (InTrainer /\ phase \in {"train", "test"} /\ "log" \in Range(ops)) =>
        /\ reports[Len(reports)].total_samples = MatrixTotal(inv_pairs)
        /\ reports[Len(reports)].total_samples = Len(processed) * BatchPixels

\* ------------------------------------------------------------- prior-correction claims
Uniform(d) == \A a \in DOMAIN d : \A b \in DOMAIN d : d[a] = d[b]

\* C12 (as claimed): when the distribution is perfectly uniform, after the prior
\* correction of a batch the argmax over the class axis of the corrected output is,
\* for every sample of the batch, the argmax of the raw model output.
C12_UniformPriorKeepsArgmax ==
    (stage = "done" /\ Uniform(distribution)) =>
        \A s \in DOMAIN output : ArgmaxSet(output[s]) = ArgmaxSet(raw_output[s])

PriorSteps == <<"exp", "sub", "sig", "norm", "log">>

IsPrefix(a, b) == Len(a) <= Len(b) /\ SubSeq(b, 1, Len(a)) = a

\* C13 (as claimed): for a batch of any size every sample goes through
\* exponentiate, subtract, squash, renormalize, logarithm, each once and in this
\* order: what has been applied to a sample is always a prefix of that sequence,
\* and all of it once the loop is left.
C13_PriorStepsOncePerSample ==
    stage # "idle" =>
        \A s \in DOMAIN history :
            /\ IsPrefix(history[s], PriorSteps)
            /\ stage = "done" => history[s] = PriorSteps

====
